---- MODULE Spec2Model ----
(***************************************************************************)
(* quodlibet/qltk/searchbar.py: SearchBarBox and LimitSearchBarBox.        *)
(*                                                                         *)
(* The widget is single threaded: every signal handler, API call and main  *)
(* loop callback runs to completion, so each is one action.  The GLib main *)
(* loop is the set `sources` of pending timeout/idle sources; TimerFire    *)
(* and IdleDispatch are the main loop running one of them.                 *)
(***************************************************************************)
EXTENDS Integers, Sequences, FiniteSets, TLC

\* ---------------------------------------------------------------- bounds
\* longest entry text the user types / set_text receives
MaxLen == 2
\* longest song list handed to limit()
MaxSongs == 2
\* largest value dialled on the limit spin button (the code allows 0..9999)
MaxLimit == 2

\* ---------------------------------------------------- program constants
\* SearchBarBox.timeout, milliseconds
timeout == 400

\* ------------------------------------------------------------------ texts
\* Entry texts are character sequences: blank, a word character, and a
\* character that starts a numeric/tag expression of the query language.
Chars == {" ", "a", "#"}

RECURSIVE SeqsUpTo(_, _)
SeqsUpTo(S, n) ==
    IF n = 0 THEN {<<>>}
    ELSE LET shorter == SeqsUpTo(S, n - 1)
         IN  shorter \cup {Append(s, c) : s \in shorter, c \in S}

Texts == SeqsUpTo(Chars, MaxLen)

\* python unicode.strip(): drop leading and trailing whitespace
RECURSIVE lstrip(_)
lstrip(t) == IF t # <<>> /\ Head(t) = " " THEN lstrip(Tail(t)) ELSE t

RECURSIVE rstrip(_)
rstrip(t) ==
    IF t # <<>> /\ t[Len(t)] = " " THEN rstrip(SubSeq(t, 1, Len(t) - 1)) ELSE t

strip(t) == rstrip(lstrip(t))

\* Query.is_parsable (quodlibet.parse, outside this file): free text always
\* parses; a text holding an expression operator must parse as a query,
\* which none of the short texts over Chars does.
is_parsable(t) == \A i \in 1..Len(t) : t[i] # "#"

\* ---------------------------------------------------------------- state
VARIABLES
    text,           \* self.__entry.get_text()
    active,         \* self.__combo.get_active(): -1, or 0 for any saved row
                    \* (the handlers only compare it with -1)
    focused,        \* entry.is_focus()
    eager,          \* config.getboolean('settings', 'eager_search')
    blocked,        \* handler_block count of self.__sig
    refill_id,      \* self.__refill_id (None, or a GLib source id)
    sources,        \* the GLib main loop's pending sources
    history,        \* the saved rows of the combo's model
    file,           \* the rows last written to the history file
    destroyed,      \* the widget was destroyed
    limit_visible,  \* self.__limit.get_visible()
    limit_value,    \* Limit.__limit.get_value_as_int()
    limit_weighted, \* Limit.__weight.get_active()
    limited,        \* argument and result of the last limit() call
    prepended,      \* <<t>> if the last step called prepend_text(t), else <<>>
    emitted,        \* the signal the last step emitted, if any
    last,           \* the last operation
    track,          \* the bookkeeping kept below: "none", "run" or "event"
    evbit,          \* flips on every event from outside the main loop
    run,            \* text changes in the current debounce run (saturating)
    fired,          \* the timer of the run's last change has expired
    runEmits        \* 'query-changed' emissions since the run began

vars == <<text, active, focused, eager, blocked, refill_id, sources, history,
          file, destroyed, limit_visible, limit_value, limit_weighted,
          limited, prepended, emitted, last, track, evbit, run, fired,
          runEmits>>

limitVars == <<limit_visible, limit_value, limit_weighted, limited>>

None == 0
NoSignal == [signal |-> "none", arg |-> <<>>]
\* limit() handing back the very list it was given
same_songs(songs) ==
    [fn |-> "songs", songs |-> songs, max |-> 0, weight_by_ratings |-> FALSE]
NoCall == [called |-> FALSE, songs |-> <<>>, result |-> same_songs(<<>>)]

\* ------------------------------------------------------- GLib main loop
\* A source id GLib has not handed out: ids are never reused while the
\* widget still holds them.
NewId(s) ==
    CHOOSE i \in 1..(Cardinality(s.sources) + 2) :
        /\ i # s.refill
        /\ \A x \in s.sources : x.id # i
        /\ \A j \in 1..(i - 1) : j = s.refill \/ \E x \in s.sources : x.id = j

\* GLib.source_remove(id)
source_remove(srcs, id) == {x \in srcs : x.id # id}

\* GLib.idle_add(self.emit, 'query-changed', text)
idle_add(s, t) ==
    LET id == NewId(s)
    IN  [refill |-> id,
         sources |-> s.sources \cup
             {[id |-> id, kind |-> "idle", delay |-> 0, text |-> t]}]

\* GLib.timeout_add(self.timeout, self.__filter_changed)
timeout_add(s, ms) ==
    LET id == NewId(s)
    IN  [refill |-> id,
         sources |-> s.sources \cup
             {[id |-> id, kind |-> "timeout", delay |-> ms, text |-> <<>>]}]

\* ------------------------------------------------------------- handlers
\* SearchBarBox.__remove_timeout
remove_timeout(s) ==
    IF s.refill # None
    THEN [refill |-> None, sources |-> source_remove(s.sources, s.refill)]
    ELSE s

\* __filter_changed scheduling the emission without asking Query.is_parsable
filter_changed_unchecked(s, t) == idle_add(remove_timeout(s), t)

\* __filter_changed forgetting to cancel what is pending
filter_changed_keeping(s, t) == IF is_parsable(t) THEN idle_add(s, t) ELSE s

\* SearchBarBox.__filter_changed
filter_changed(s, t) ==
    LET s1 == remove_timeout(s)
    IN  IF is_parsable(t) THEN idle_add(s1, t) ELSE s1

\* __text_changed starting a timer without cancelling the pending one
text_changed_keeping(s, act, eag, t) ==
    IF act # -1 THEN filter_changed(s, t)
    ELSE IF ~eag THEN s
    ELSE IF is_parsable(t) THEN timeout_add(s, timeout) ELSE s

\* __text_changed cancelling the pending timer and starting none
\* (the callback's result taken for the source id)
text_changed_untimed(s, act, eag, t) ==
    IF act # -1 THEN filter_changed(s, t)
    ELSE IF ~eag THEN s
    ELSE remove_timeout(s)

\* __text_changed debouncing whatever eager_search says
\* (the early return of the eager_search test left out)
text_changed_always_eager(s, act, eag, t) ==
    IF act # -1 THEN filter_changed(s, t)
    ELSE LET s1 == remove_timeout(s)
         IN  IF is_parsable(t) THEN timeout_add(s1, timeout) ELSE s1

\* __text_changed debouncing a selected history row like typed text
\* (the get_active() test left out)
text_changed_no_bypass(s, act, eag, t) ==
    IF ~eag THEN s
    ELSE LET s1 == remove_timeout(s)
         IN  IF is_parsable(t) THEN timeout_add(s1, timeout) ELSE s1

\* SearchBarBox.__text_changed
text_changed(s, act, eag, t) ==
    IF act # -1 THEN filter_changed(s, t)
    ELSE IF ~eag THEN s
    ELSE LET s1 == remove_timeout(s)
         IN  IF is_parsable(t) THEN timeout_add(s1, timeout) ELSE s1

\* the combo emitting 'text-changed': the handler connected as self.__sig
\* runs unless it is blocked
emit_text_changed(blk, s, act, eag, t) ==
    IF blk > 0 THEN s ELSE text_changed(s, act, eag, t)

\* ComboBoxEntrySave.prepend_text (qltk.cbes, outside this file): the text
\* is among the saved rows afterwards.  The rows are kept as a set: no
\* handler of this file looks at their order.
prepend_text(h, t) == h \cup {t}

\* SearchBarBox.__inhibit / __uninhibit
inhibit(blk) == blk + 1
uninhibit(blk) == blk - 1

\* __save_search saving on focus-out whatever eager_search says
save_search_ungated(args, eag, t, c) ==
    LET stripped == strip(t)
    IN  IF stripped # <<>> /\ is_parsable(stripped)
        THEN LET h1 == prepend_text(c.history, stripped)
             IN  [c EXCEPT !.history = h1, !.file = h1,
                           !.prepended = <<stripped>>]
        ELSE [c EXCEPT !.prepended = <<>>]

\* __save_search saving the entry text as it stands: not stripped, and
\* without asking Query.is_parsable
save_search_unchecked(args, eag, t, c) ==
    IF args /\ ~eag THEN [c EXCEPT !.prepended = <<>>]
    ELSE IF t # <<>>
         THEN LET h1 == prepend_text(c.history, t)
              IN  [c EXCEPT !.history = h1, !.file = h1, !.prepended = <<t>>]
         ELSE [c EXCEPT !.prepended = <<>>]

\* __save_search adding the row without blocking the handler
save_search_uninhibited(args, eag, t, c) ==
    IF args /\ ~eag THEN [c EXCEPT !.prepended = <<>>]
    ELSE LET stripped == strip(t)
         IN  IF stripped # <<>> /\ is_parsable(stripped)
             THEN LET h1 == prepend_text(c.history, stripped)
                      s1 == emit_text_changed(c.blocked, c.sched, 0, eag, t)
                  IN  [sched |-> s1, history |-> h1, file |-> h1,
                       blocked |-> c.blocked, prepended |-> <<stripped>>]
             ELSE [c EXCEPT !.prepended = <<>>]

\* SearchBarBox.__save_search on the state c = [sched, history, file,
\* blocked].  `args` is TRUE for focus-out-event (the handler receives the
\* event) and FALSE for activate.  Adding the row makes the combo emit its
\* change signal with row 0 active, which reaches __text_changed unless the
\* handler is blocked.
save_search(args, eag, t, c) ==
    IF args /\ ~eag THEN [c EXCEPT !.prepended = <<>>]
    ELSE LET stripped == strip(t)
         IN  IF stripped # <<>> /\ is_parsable(stripped)
             THEN LET b1 == inhibit(c.blocked)
                      h1 == prepend_text(c.history, stripped)
                      s1 == emit_text_changed(b1, c.sched, 0, eag, t)
                  IN  [sched |-> s1, history |-> h1, file |-> h1,
                       blocked |-> uninhibit(b1), prepended |-> <<stripped>>]
             ELSE [c EXCEPT !.prepended = <<>>]

\* set_text changing the entry without blocking the handler
set_text_uninhibited(s, blk, act, eag, t) ==
    [sched |-> emit_text_changed(blk, remove_timeout(s), act, eag, t),
     blocked |-> blk]

\* SearchBarBox.set_text on [sched, blocked]
set_text(s, blk, act, eag, t) ==
    LET s1 == remove_timeout(s)
        b1 == inhibit(blk)
        s2 == emit_text_changed(b1, s1, act, eag, t)
    IN  [sched |-> s2, blocked |-> uninhibit(b1)]

\* SearchBarBox.changed
changed(s, t) == filter_changed(s, t)

\* the signals __init__ connects a handler of this class to
Connected ==
    {"destroy", "text-changed", "clear", "backspace", "populate-popup",
     "activate", "focus-out-event"}

\* SearchBarBox.__mnemonic_activate: the signal the handler would emit
mnemonic_activate(isFocus) ==
    IF isFocus THEN [signal |-> "focus-out", arg |-> <<>>] ELSE NoSignal

\* util.limit_songs (outside this file): the call, uninterpreted
limit_songs(songs, max, weight_by_ratings) ==
    [fn |-> "limit_songs", songs |-> songs, max |-> max,
     weight_by_ratings |-> weight_by_ratings]

\* limit() limiting whether or not the limit widget is shown
limit_always(songs, visible, value, weighted) ==
    limit_songs(songs, value, weighted)

\* LimitSearchBarBox.limit
limit(songs, visible, value, weighted) ==
    IF visible THEN limit_songs(songs, value, weighted) ELSE same_songs(songs)

sched == [refill |-> refill_id, sources |-> sources]

SetSched(s) ==
    /\ refill_id' = s.refill
    /\ sources' = s.sources

combo == [sched |-> sched, history |-> history, file |-> file,
          blocked |-> blocked, prepended |-> <<>>]

SetCombo(c) ==
    /\ SetSched(c.sched)
    /\ history' = c.history
    /\ file' = c.file
    /\ blocked' = c.blocked
    /\ prepended' = c.prepended
    \* the row holding the entry's text may have become the active one
    /\ active' \in IF c.prepended # <<>> THEN {active, 0} ELSE {active}

NoSave == UNCHANGED <<history, file>> /\ prepended' = <<>>

\* ------------------------------------------------- debounce bookkeeping
\* A run is a series of text changes on the debounce path of
\* __text_changed, each arriving before the timer of the one before it has
\* expired.  Kept when track = "run".
RunCap == 3

RunChange ==
    IF track = "run"
    THEN /\ run' = IF run > 0 /\ ~fired
                   THEN (IF run < RunCap THEN run + 1 ELSE run)
                   ELSE 1
         /\ runEmits' = IF run > 0 /\ ~fired THEN runEmits ELSE 0
         /\ fired' = FALSE
    ELSE UNCHANGED <<run, fired, runEmits>>

\* any other event that runs a scheduling handler ends the run
RunEnd ==
    IF track = "run"
    THEN /\ run' = 0
         /\ runEmits' = 0
         /\ fired' = FALSE
    ELSE UNCHANGED <<run, fired, runEmits>>

RunKeep == UNCHANGED <<run, fired, runEmits>>

\* an event from outside the main loop; evbit is kept when track = "event"
Event(name) ==
    /\ last' = name
    /\ evbit' = IF track = "event" THEN 1 - evbit ELSE evbit
    /\ track' = track

\* a main loop dispatch, or a step that runs no handler of the widget
Step(name) ==
    /\ last' = name
    /\ UNCHANGED <<evbit, track>>

\* ---------------------------------------------------------------- Init
\* after SearchBarBox.__init__ / LimitSearchBarBox.__init__(show_limit=False)
Start ==
    /\ text = <<>>
    /\ active = -1
    /\ focused = FALSE
    /\ eager \in BOOLEAN
    /\ blocked = 0
    /\ refill_id = None
    /\ sources = {}
    /\ history = {}
    /\ file = {}
    /\ destroyed = FALSE
    /\ limit_visible = FALSE
    /\ limit_value = 0
    /\ limit_weighted = FALSE
    /\ limited = NoCall
    /\ prepended = <<>>
    /\ emitted = NoSignal
    /\ last = "init"
    /\ evbit = 0
    /\ run = 0
    /\ fired = FALSE
    /\ runEmits = 0

Init == Start /\ track = "none"

\* -------------------------------------------------------------- actions
\* The user edits the entry (types, deletes, pastes): no history row is
\* active any more and the combo emits 'text-changed'.
TextChanged ==
    \E t \in Texts \ {text} :
        /\ ~destroyed
        /\ text' = t
        /\ active' = -1
        /\ SetSched(emit_text_changed(blocked, sched, -1, eager, t))
        /\ emitted' = NoSignal
        /\ Event("text_changed")
        /\ IF eager THEN RunChange ELSE RunEnd
        /\ UNCHANGED <<focused, eager, blocked, destroyed>>
        /\ NoSave /\ UNCHANGED limitVars

\* The user picks a row of the history dropdown.
HistorySelect ==
    \E row \in history :
        /\ ~destroyed
        /\ text' = row
        /\ active' = 0
        /\ SetSched(emit_text_changed(blocked, sched, 0, eager, row))
        /\ emitted' = NoSignal
        /\ Event("history_select")
        /\ RunEnd
        /\ UNCHANGED <<focused, eager, blocked, destroyed>>
        /\ NoSave /\ UNCHANGED limitVars

\* entry 'backspace': the handler runs on the entry as it is
Backspace ==
    /\ ~destroyed
    /\ SetSched(text_changed(sched, active, eager, text))
    /\ emitted' = NoSignal
    /\ Event("backspace")
    /\ IF active = -1 /\ eager THEN RunChange ELSE RunEnd
    /\ UNCHANGED <<text, active, focused, eager, blocked, destroyed>>
    /\ NoSave /\ UNCHANGED limitVars

\* entry 'activate' (Enter): __filter_changed, then __save_search(entry)
Activate ==
    /\ ~destroyed
    /\ SetCombo(save_search(FALSE, eager, text,
           [combo EXCEPT !.sched = filter_changed(sched, text)]))
    /\ emitted' = NoSignal
    /\ Event("activate")
    /\ RunEnd
    /\ UNCHANGED <<text, focused, eager, destroyed>>
    /\ UNCHANGED limitVars

\* entry 'focus-out-event': __save_search(entry, event)
FocusOut ==
    /\ ~destroyed
    /\ focused' = FALSE
    /\ SetCombo(save_search(TRUE, eager, text, combo))
    /\ emitted' = NoSignal
    /\ Event("focus_out")
    /\ RunKeep
    /\ UNCHANGED <<text, eager, destroyed>>
    /\ UNCHANGED limitVars

\* The entry gets the focus by a click.
FocusIn ==
    /\ ~destroyed /\ ~focused
    /\ focused' = TRUE
    /\ emitted' = NoSignal
    /\ Event("focus_in")
    /\ RunKeep
    /\ UNCHANGED <<text, active, eager, blocked, refill_id, sources, destroyed>>
    /\ NoSave /\ UNCHANGED limitVars

\* <ctrl>L: entry.mnemonic_activate(True) focuses the entry and emits its
\* 'mnemonic-activate'; a handler of this class runs only if connected.
MnemonicActivate ==
    /\ ~destroyed
    /\ focused' = TRUE
    /\ emitted' = IF "mnemonic-activate" \in Connected
                  THEN mnemonic_activate(focused) ELSE NoSignal
    /\ Event(IF focused THEN "mnemonic_refocus" ELSE "mnemonic_focus")
    /\ RunKeep
    /\ UNCHANGED <<text, active, eager, blocked, refill_id, sources, destroyed>>
    /\ NoSave /\ UNCHANGED limitVars

\* The clear button: the entry is emptied (a text change), then 'clear'
\* runs __filter_changed.
Clear ==
    /\ ~destroyed
    /\ text' = <<>>
    /\ active' = -1
    /\ SetSched(filter_changed(
           emit_text_changed(blocked, sched, -1, eager, <<>>), <<>>))
    /\ emitted' = NoSignal
    /\ Event("clear")
    /\ RunEnd
    /\ UNCHANGED <<focused, eager, blocked, destroyed>>
    /\ NoSave /\ UNCHANGED limitVars

\* SearchBarBox.set_text(t), called by the application
SetText ==
    \E t \in Texts :
        /\ ~destroyed
        /\ text' = t
        /\ active' = -1
        /\ LET r == set_text(sched, blocked, -1, eager, t)
           IN  SetSched(r.sched) /\ blocked' = r.blocked
        /\ emitted' = NoSignal
        /\ Event("set_text")
        /\ RunEnd
        /\ UNCHANGED <<focused, eager, destroyed>>
        /\ NoSave /\ UNCHANGED limitVars

\* SearchBarBox.changed(), called by the application
Changed ==
    /\ ~destroyed
    /\ SetSched(changed(sched, text))
    /\ emitted' = NoSignal
    /\ Event("changed")
    /\ RunEnd
    /\ UNCHANGED <<text, active, focused, eager, blocked, destroyed>>
    /\ NoSave /\ UNCHANGED limitVars

\* The eager_search setting is changed in the preferences; the handlers
\* read it anew on every event.
ToggleEager ==
    /\ ~destroyed
    /\ eager' = ~eager
    /\ emitted' = NoSignal
    /\ Step("toggle_eager")
    /\ RunKeep
    /\ UNCHANGED <<text, active, focused, blocked, refill_id, sources,
                   destroyed>>
    /\ NoSave /\ UNCHANGED limitVars

\* 'destroy': lambda w: w.__remove_timeout()
Destroy ==
    /\ ~destroyed
    /\ destroyed' = TRUE
    /\ SetSched(remove_timeout(sched))
    /\ emitted' = NoSignal
    /\ Event("destroy")
    /\ RunEnd
    /\ UNCHANGED <<text, active, focused, eager, blocked>>
    /\ NoSave /\ UNCHANGED limitVars

\* The main loop runs an expired timeout source: __filter_changed, whose
\* None result makes GLib drop the source it has just run (the handler has
\* by then removed it itself, as __refill_id names it).
TimerFire ==
    \E src \in sources :
        /\ src.kind = "timeout"
        /\ LET s1 == filter_changed(sched, text)
           IN  SetSched([s1 EXCEPT !.sources = @ \ {src}])
        /\ emitted' = NoSignal
        /\ Step("timer")
        /\ fired' = (track = "run")
        /\ UNCHANGED <<text, active, focused, eager, blocked, destroyed,
                       run, runEmits>>
        /\ NoSave /\ UNCHANGED limitVars

\* The main loop runs an idle source: self.emit('query-changed', text),
\* whose None result removes the source; __refill_id keeps the old id.
IdleDispatch ==
    \E src \in sources :
        /\ src.kind = "idle"
        /\ sources' = sources \ {src}
        /\ emitted' = [signal |-> "query-changed", arg |-> src.text]
        /\ Step("idle")
        /\ runEmits' = IF track = "run" /\ runEmits < 2
                       THEN runEmits + 1 ELSE runEmits
        /\ UNCHANGED <<text, active, focused, eager, blocked, refill_id,
                       destroyed, run, fired>>
        /\ NoSave /\ UNCHANGED limitVars

\* ----------------------------------------------------- LimitSearchBarBox
Songs == SeqsUpTo({"s1", "s2"}, MaxSongs)

\* Limit.__changed -> 'changed' -> __limit_changed -> self.changed()
LimitChanged(name) ==
    /\ ~destroyed
    /\ SetSched(changed(sched, text))
    /\ emitted' = NoSignal
    /\ Event(name)
    /\ RunEnd
    /\ limited' = NoCall
    /\ UNCHANGED <<text, active, focused, eager, blocked, destroyed>>
    /\ NoSave

\* the spin button's 'value-changed'
SpinChanged ==
    \E v \in (0..MaxLimit) \ {limit_value} :
        /\ limit_value' = v
        /\ LimitChanged("value_changed")
        /\ UNCHANGED <<limit_visible, limit_weighted>>

\* the weight check button's 'toggled'
WeightToggled ==
    /\ limit_weighted' = ~limit_weighted
    /\ LimitChanged("toggled")
    /\ UNCHANGED <<limit_visible, limit_value>>

\* LimitSearchBarBox.toggle_limit_widgets(button)
ToggleLimitWidgets ==
    \E button_active \in BOOLEAN :
        /\ limit_visible' = button_active
        /\ LimitChanged("toggle_limit_widgets")
        /\ UNCHANGED <<limit_value, limit_weighted>>

\* LimitSearchBarBox.limit(songs), called by the application
Limit ==
    \E songs \in Songs :
        /\ ~destroyed
        /\ limited' = [called |-> TRUE, songs |-> songs,
                       result |-> limit(songs, limit_visible, limit_value,
                                        limit_weighted)]
        /\ emitted' = NoSignal
        /\ Step("limit")
        /\ RunKeep
        /\ UNCHANGED <<text, active, focused, eager, blocked, refill_id,
                       sources, destroyed>>
        /\ UNCHANGED <<limit_visible, limit_value, limit_weighted>>
        /\ NoSave

\* ------------------------------------------------------- specifications
Next ==
    \/ TextChanged
    \/ HistorySelect
    \/ Backspace
    \/ Activate
    \/ Clear
    \/ FocusOut
    \/ SetText
    \/ Changed
    \/ ToggleEager
    \/ Destroy
    \/ TimerFire
    \/ IdleDispatch

\* SearchBarBox: the entry's events, the API and the main loop
Spec == Init /\ [][Next]_vars

\* the same, with the debounce runs counted
RunInit == Start /\ track = "run"
RunSpec == RunInit /\ [][Next]_vars

\* Search-as-you-type: the events that run a scheduling handler without
\* saving to the history (the saved rows have no part in what the main loop
\* runs), with the events marked and the main loop running every source
\* that stays pending.
NextTyping ==
    \/ TextChanged
    \/ Backspace
    \/ Clear
    \/ SetText
    \/ Changed
    \/ ToggleEager
    \/ Destroy
    \/ TimerFire
    \/ IdleDispatch

FairInit == Start /\ track = "event"
FairSpec ==
    /\ FairInit
    /\ [][NextTyping]_vars
    /\ WF_vars(TimerFire)
    /\ WF_vars(IdleDispatch)

\* the entry's focus: clicks, <ctrl>L, focus-out, typing, Enter and the
\* main loop
NextFocus ==
    \/ FocusIn
    \/ MnemonicActivate
    \/ FocusOut
    \/ TextChanged
    \/ Activate
    \/ TimerFire
    \/ IdleDispatch

FocusSpec == Init /\ [][NextFocus]_vars

\* LimitSearchBarBox with its entry left alone: the limit widget's events,
\* limit() calls and the main loop
NextLimit ==
    \/ SpinChanged
    \/ WeightToggled
    \/ ToggleLimitWidgets
    \/ Limit
    \/ IdleDispatch

LimitSpec == Init /\ [][NextLimit]_vars

\* ================================================================ claims
\* the one source __refill_id names
IdleSource(t) == [id |-> refill_id, kind |-> "idle", delay |-> 0, text |-> t]
TimerSource == [id |-> refill_id, kind |-> "timeout", delay |-> timeout,
                text |-> <<>>]
QueryChanged == emitted.signal = "query-changed"

\* a text __save_search is to save: non-empty once stripped, and parsable
Saveable(t) == strip(t) # <<>> /\ is_parsable(strip(t))

\* the last step was a text-changed or backspace event that found
\* eager_search on and no history row active
Debounced == last \in {"text_changed", "backspace"} /\ eager /\ active = -1

\* C1: every 'query-changed' that is emitted carries a text for which
\* Query.is_parsable is true.
C1_EmittedIsParsable == QueryChanged => is_parsable(emitted.arg)

\* a 'query-changed' is emitted while the entry holds an unparsable text
C1_Witness == QueryChanged /\ ~is_parsable(text)

\* C2: a debounced text change leaves exactly the new timer of `timeout`
\* ms pending when the text is parsable and nothing when it is not; while
\* each change of a run arrives before the timer of the one before expires
\* nothing is emitted, and a run yields at most one 'query-changed'.
C2_Debounce ==
    /\ Debounced =>
           /\ emitted = NoSignal
           /\ IF is_parsable(text)
              THEN sources = {TimerSource} /\ TimerSource.delay = 400
              ELSE sources = {} /\ refill_id = None
    /\ run > 0 =>
           /\ runEmits <= 1
           /\ ~fired => runEmits = 0

\* a run of at least three changes has produced its one emission, with
\* the text of its last change
C2_Witness ==
    /\ run = RunCap
    /\ fired
    /\ runEmits = 1
    /\ QueryChanged
    /\ emitted.arg = text

\* a source is pending, or was just run, after the last event
Pending(b) == evbit = b /\ Debounced /\ is_parsable(text)
Settled(b) ==
    \/ evbit # b
    \/ last = "idle" /\ QueryChanged /\ emitted.arg = text

\* C3: when a debounced text change leaves a parsable text and no further
\* event follows, the timer fires, __filter_changed schedules the idle
\* emission of the text it reads, and 'query-changed' is emitted with it.
C3_EagerSearchPropagates ==
    /\ Pending(0) ~> Settled(0)
    /\ Pending(1) ~> Settled(1)
    /\ [](last = "timer" =>
            IF is_parsable(text) THEN sources = {IdleSource(text)}
            ELSE sources = {})

\* the timer of a debounced change has fired and the emission of the
\* entry text is scheduled
C3_Witness ==
    /\ track = "event"
    /\ last = "timer"
    /\ eager /\ active = -1
    /\ text # <<>>
    /\ sources = {IdleSource(text)}

\* C4: a focus-out with eager_search off leaves the history and its file
\* as they are; a focus-out with eager_search on, and an activate whatever
\* eager_search is, save the query.
C4_SavingGatedByEagerSearch ==
    /\ [][(last' = "focus_out" /\ ~eager) =>
            /\ history' = history
            /\ file' = file
            /\ prepended' = <<>>]_vars
    /\ [][(last' = "focus_out" /\ eager /\ Saveable(text)) =>
            /\ prepended' = <<strip(text)>>
            /\ strip(text) \in history'
            /\ file' = history']_vars
    /\ [][(last' = "activate" /\ Saveable(text)) =>
            /\ prepended' = <<strip(text)>>
            /\ strip(text) \in history'
            /\ file' = history']_vars

\* the entry lost the focus with eager_search off while holding a query
\* not yet in the history, and nothing was saved
C4_Witness ==
    /\ last = "focus_out"
    /\ ~eager
    /\ Saveable(text)
    /\ strip(text) \notin history
    /\ prepended = <<>>

\* C5: every text prepended to the history is stripped, non-empty and
\* parsable; when the stripped entry text is empty or not parsable,
\* activate and focus-out neither prepend nor write the file.
C5_OnlyParsableQueriesSaved ==
    /\ [](\A h \in history \cup file :
            h = strip(h) /\ h # <<>> /\ is_parsable(h))
    /\ [](prepended # <<>> =>
            /\ prepended[1] = strip(text)
            /\ prepended[1] # <<>>
            /\ is_parsable(prepended[1]))
    /\ [][(last' \in {"activate", "focus_out"} /\ ~Saveable(text)) =>
            /\ history' = history
            /\ file' = file
            /\ prepended' = <<>>]_vars

\* a query typed with blanks around it was saved, stripped
C5_Witness ==
    /\ last \in {"activate", "focus_out"}
    /\ prepended # <<>>
    /\ text # strip(text)
    /\ prepended[1] \in history

\* C6: after changed(), if the entry text is parsable exactly one callback
\* is pending, the idle emission of 'query-changed' with that text; if it
\* is not parsable nothing is pending.
C6_ChangedSchedulesIffParsable ==
    last = "changed" =>
        /\ emitted = NoSignal
        /\ IF is_parsable(text)
           THEN sources = {IdleSource(text)}
           ELSE sources = {} /\ refill_id = None

\* changed() was called on a parsable, non-empty text
C6_Witness ==
    /\ last = "changed"
    /\ text # <<>>
    /\ is_parsable(text)
    /\ Cardinality(sources) = 1

\* C7: <ctrl>L on the entry that already has the focus emits 'focus-out'.
C7_FocusOutOnRefocus ==
    last = "mnemonic_refocus" => emitted.signal = "focus-out"

\* C8: limit(songs) is limit_songs(songs, value, weighted) with the current
\* spin value and weight state when the limit widget is visible, and the
\* songs as given when it is not.
C8_LimitOnlyWhenVisible ==
    limited.called =>
        IF limit_visible
        THEN limited.result =
                 [fn |-> "limit_songs", songs |-> limited.songs,
                  max |-> limit_value, weight_by_ratings |-> limit_weighted]
        ELSE limited.result = same_songs(limited.songs)

\* limit() was called on some songs with the widget hidden, a limit set
\* and weighting on
C8_Witness ==
    /\ limited.called
    /\ ~limit_visible
    /\ limit_value > 0
    /\ limit_weighted
    /\ limited.songs # <<>>
    /\ limited.result = same_songs(limited.songs)

\* C9: after set_text() nothing is pending, nothing was emitted, the
\* handler is unblocked again, and no main loop dispatch follows it.
C9_SetTextIsSilent ==
    /\ [](last = "set_text" =>
            /\ sources = {}
            /\ refill_id = None
            /\ blocked = 0
            /\ emitted = NoSignal)
    /\ [][last = "set_text" => last' \notin {"timer", "idle"}]_vars

\* set_text() put a parsable text into the entry with eager_search on
C9_Witness ==
    /\ last = "set_text"
    /\ eager
    /\ text # <<>>
    /\ is_parsable(text)
    /\ sources = {}

\* a step that schedules a 'query-changed'
Schedules == \E src \in sources' \ sources : src.kind = "idle"

\* a text-changed or backspace event finding eager_search off and no
\* history row active changes neither the pending sources nor the stored id
C10_Frame ==
    (last' \in {"text_changed", "backspace"} /\ ~eager /\ active' = -1) =>
        UNCHANGED <<sources, refill_id>>

\* C10 as stated: with eager_search off and no history row active, a
\* text-changed or backspace event schedules nothing and leaves the pending
\* callback and the stored id unchanged, and a 'query-changed' is scheduled
\* only by activate, clear, changed() or the selection of a history row.
C10_Original ==
    /\ [][C10_Frame]_vars
    /\ [][(~eager /\ active = -1 /\ Schedules) =>
            last' \in {"activate", "clear", "changed", "history_select"}]_vars

\* C10 as amended: the same, with one more way a 'query-changed' gets
\* scheduled in that mode: the expiry of a timer, which only a text-changed
\* or backspace event that found eager_search on can have started.
C10_EagerOffSchedulesNothing ==
    /\ [][C10_Frame]_vars
    /\ [][(~eager /\ active = -1 /\ Schedules) =>
            last' \in {"activate", "clear", "changed", "history_select",
                       "timer"}]_vars
    /\ [][(\E src \in sources' \ sources : src.kind = "timeout") =>
            eager /\ last' \in {"text_changed", "backspace"}]_vars

\* a text change found eager_search off and left a pending emission alone
C10_Witness ==
    /\ last \in {"text_changed", "backspace"}
    /\ ~eager /\ active = -1
    /\ is_parsable(text)
    /\ \E src \in sources : src.kind = "idle" /\ src.text # text

\* the last step ran __text_changed while a history row was active
OnActiveRow == last = "history_select" \/ (last = "backspace" /\ active # -1)

\* C11: a text-changed event that finds a history row active goes straight
\* to __filter_changed: whether eager_search is on or off, no timer is
\* started and the idle emission of the entry text is the one source pending
\* (nothing is pending if the text is not parsable).
C11_HistorySelectBypassesDebounce ==
    OnActiveRow =>
        /\ emitted = NoSignal
        /\ \A src \in sources : src.kind # "timeout"
        /\ IF is_parsable(text)
           THEN sources = {IdleSource(text)} /\ IdleSource(text).delay = 0
           ELSE sources = {} /\ refill_id = None

\* a history row was picked with eager_search off and its emission is
\* scheduled
C11_Witness ==
    /\ last = "history_select"
    /\ ~eager
    /\ active # -1
    /\ text \in history
    /\ sources = {IdleSource(text)}

\* C12: __save_search schedules and cancels nothing and leaves the stored
\* source id and the handler's block count as they were, also when it saves
\* (a focus-out runs it alone); after an activate the pending sources are
\* what __filter_changed alone leaves: the one idle emission of a parsable
\* text, saved or not, and nothing otherwise.
C12_SavingTriggersNoQuery ==
    /\ [][last' = "focus_out" =>
            /\ sources' = sources
            /\ refill_id' = refill_id
            /\ blocked' = blocked
            /\ emitted' = NoSignal]_vars
    /\ [][last' = "activate" =>
            /\ sources' = filter_changed(sched, text).sources
            /\ refill_id' = filter_changed(sched, text).refill
            /\ blocked' = blocked]_vars
    /\ [](last = "activate" =>
            IF is_parsable(text)
            THEN sources = {IdleSource(text)}
            ELSE sources = {} /\ refill_id = None)

\* a focus-out saved the query while the debounce timer was pending, and
\* the timer is still the one pending source
C12_Witness ==
    /\ last = "focus_out"
    /\ prepended # <<>>
    /\ sources = {TimerSource}
    /\ blocked = 0

====
